---- MODULE Spec2Model ----
(***************************************************************************)
(* worker.py: a background worker thread that polls a feed, normalises     *)
(* every advantage and upserts it into a MongoDB collection, beside a      *)
(* Flask application serving "/" and "/status".                            *)
(*                                                                         *)
(* Specifications:                                                         *)
(*   Spec      the program as it is built.  parse_mongodb_uri assigns to   *)
(*             MONGODB_URI (lines 32, 34) without a global declaration, so *)
(*             Python compiles the name as a local of the function and the *)
(*             read on line 26 raises UnboundLocalError on every call:     *)
(*             setup_mongodb_connection never gets past line 42.           *)
(*   SpecLoop  the worker thread and the store, where in addition the read *)
(*             on line 26 may resolve to the module global, so that the    *)
(*             code after line 42 (the pymongo calls, the fetch, the       *)
(*             transformer, the bulk write) runs.  The worker steps of     *)
(*             Spec are steps of SpecLoop.                                 *)
(*   SpecAll   SpecLoop together with the two HTTP handlers; every         *)
(*             behaviour of Spec is a behaviour of SpecAll.                *)
(*   SpecLoopFair  SpecLoop where a sleeping or restarting worker thread   *)
(*             is eventually scheduled (time.sleep returns).               *)
(*   SpecTransform  process_advantage_data alone, called once on every raw *)
(*             advantage within the bounds, its float arithmetic rounded   *)
(*             as binary64 rounds.                                         *)
(***************************************************************************)
EXTENDS Integers, Sequences, FiniteSets, TLC

(* ------------------------------ bounds --------------------------------- *)
\* datetime.utcnow() readings are 0..MaxTime
MaxTime == 1
\* the feed returns at most MaxBatch advantages in one response
MaxBatch == 2
\* MongoClient objects are counted up to MaxClients
MaxClients == 2
\* a payout of the feed is a number of halves, 1.0 up to MaxPayoutHalves / 2
MaxPayoutHalves == 6
\* an implied probability of the feed is a whole percentage 0..MaxPercent
MaxPercent == 100

\* the values of advantage['key'] the feed uses
Keys == {"k1", "k2"}
\* the distinct contents (every feed-derived field but key) of a raw advantage
Vers == {"a", "b"}

(* --------------------------- program constants ------------------------- *)
max_retries == 3
BackoffSeconds == 30
IntervalSeconds == 60

\* worker_thread = threading.Thread(target=worker, daemon=True); .start()
WorkerThreads == {"worker_thread"}

VARIABLES
    MONGODB_URI,    \* os.getenv('MONGODB_ATLAS_URI'): "unset" or "set"
    uri_binding,    \* how the name MONGODB_URI is resolved on line 26
    store_up,       \* the MongoDB deployment answers
    now,            \* the last reading of datetime.utcnow()
    clients,        \* the MongoClient objects constructed so far (line 45)
    store,          \* sports_betting.bets: a sequence of documents
    lastWrite,      \* per key, the replacement of the last replaceOne applied
    wpc,            \* per worker thread, its position in worker()
    retry_count,    \* worker(): retry_count
    api_data,       \* worker(): api_data
    processed_bets, \* worker(): processed_bets, as far as it is built
    pending,        \* the operations of the bulk write not yet executed
    write_errors,   \* the bulk write has collected a write error
    slept,          \* seconds slept since the last attempt ended
    last_end,       \* how the last attempt ended: the exception, "ok" or "noadv"
    rc_at_start,    \* retry_count when the last attempt started
    spc,            \* position of the /status handler
    statusResp,     \* the last response of /status
    healthResp,     \* the last response of /
    argument,       \* process_advantage_data(): the advantage a call is given
    result          \* process_advantage_data(): what the call returned or raised

wvars == <<wpc, retry_count, api_data, processed_bets, pending, write_errors,
           slept, last_end, rc_at_start>>
envvars == <<MONGODB_URI, uri_binding, store_up, now, clients>>
dbvars == <<store, lastWrite>>
httpvars == <<spc, statusResp, healthResp>>
tvars == <<argument, result>>
vars == <<MONGODB_URI, uri_binding, store_up, now, clients, store, lastWrite,
          wpc, retry_count, api_data, processed_bets, pending, write_errors,
          slept, last_end, rc_at_start, spc, statusResp, healthResp,
          argument, result>>

(* ------------------------------ values --------------------------------- *)
\* Python's None where a number is expected
Null == -1

\* a raw advantage of the feed; key "missing" stands for a record without its
\* mandatory fields
RawAdvantages == [key : Keys, ver : Vers] \cup {[key |-> "missing", ver |-> "a"]}

RECURSIVE SeqsUpTo(_, _)
SeqsUpTo(S, n) ==
    IF n = 0 THEN {<<>>}
    ELSE LET shorter == SeqsUpTo(S, n - 1)
         IN  shorter \cup {Append(s, x) : s \in {t \in shorter : Len(t) = n - 1}, x \in S}

\* response.json(): a JSON object with or without 'advantages', or another JSON value
NoData == [kind |-> "none", advantages |-> <<>>]
ApiData ==
    {[kind |-> "notdict", advantages |-> <<>>], [kind |-> "nokey", advantages |-> <<>>]}
    \cup {[kind |-> "dict", advantages |-> s] : s \in SeqsUpTo(RawAdvantages, MaxBatch)}

\* the exceptions the program meets, and the classes of the first except clause
\* of worker() with their subclasses (pymongo: AutoReconnect and
\* ServerSelectionTimeoutError derive from ConnectionFailure)
Exceptions ==
    {"UnboundLocalError", "ValueError", "ConnectionFailure", "ServerSelectionTimeoutError",
     "AutoReconnect", "NetworkError", "HTTPStatusError", "DecodeError", "AttributeError",
     "KeyError", "BulkWriteError"}
ConnectionFailures == {"ConnectionFailure", "ServerSelectionTimeoutError", "AutoReconnect"}

(* --------------------------- float arithmetic ------------------------- *)
\* Python's float is the IEEE-754 binary64 format: every operation returns the
\* exact result rounded to MantissaBits significant bits, ties to even.  A
\* natural number is a sequence of limbs of LimbBits bits, least significant
\* first; a float is a sign and a magnitude counted in units of
\* 2^-(LimbBits * FracLimbs), fine enough for every value that lines 101-103
\* meet on the inputs drawn here.
MantissaBits == 53
LimbBits == 15
FracLimbs == 5
Base == 2 ^ LimbBits

RECURSIVE Norm(_)
Norm(s) == IF s = <<>> \/ s[Len(s)] # 0 THEN s ELSE Norm(SubSeq(s, 1, Len(s) - 1))

RECURSIVE FromNat(_)
FromNat(n) == IF n = 0 THEN <<>> ELSE <<n % Base>> \o FromNat(n \div Base)

Zeros(k) == [i \in 1..k |-> 0]
ShiftLimbs(s, k) == IF s = <<>> THEN <<>> ELSE Zeros(k) \o s
Limb(s, i) == IF i \in DOMAIN s THEN s[i] ELSE 0
LongerLen(a, b) == IF Len(a) >= Len(b) THEN Len(a) ELSE Len(b)

RECURSIVE AddFrom(_, _, _, _)
AddFrom(a, b, i, carry) ==
    IF i > LongerLen(a, b) THEN (IF carry = 0 THEN <<>> ELSE <<carry>>)
    ELSE LET t == Limb(a, i) + Limb(b, i) + carry
         IN  <<t % Base>> \o AddFrom(a, b, i + 1, t \div Base)
AddB(a, b) == Norm(AddFrom(a, b, 1, 0))

\* a - b for a >= b
RECURSIVE SubFrom(_, _, _, _)
SubFrom(a, b, i, borrow) ==
    IF i > Len(a) THEN <<>>
    ELSE LET t == Limb(a, i) - Limb(b, i) - borrow
         IN  <<IF t < 0 THEN t + Base ELSE t>>
             \o SubFrom(a, b, i + 1, IF t < 0 THEN 1 ELSE 0)
SubB(a, b) == Norm(SubFrom(a, b, 1, 0))

LessB(a, b) ==
    IF Len(a) # Len(b) THEN Len(a) < Len(b)
    ELSE \E i \in DOMAIN a :
            /\ a[i] < b[i]
            /\ \A j \in DOMAIN a : j > i => a[j] = b[j]

\* a * m for one limb m
RECURSIVE MulLimbFrom(_, _, _, _)
MulLimbFrom(a, m, i, carry) ==
    IF i > Len(a) THEN (IF carry = 0 THEN <<>> ELSE <<carry>>)
    ELSE LET t == a[i] * m + carry
         IN  <<t % Base>> \o MulLimbFrom(a, m, i + 1, t \div Base)
MulLimb(a, m) == Norm(MulLimbFrom(a, m, 1, 0))

RECURSIVE MulFrom(_, _, _)
MulFrom(a, b, i) ==
    IF i > Len(b) THEN <<>>
    ELSE AddB(ShiftLimbs(MulLimb(a, b[i]), i - 1), MulFrom(a, b, i + 1))
MulB(a, b) == MulFrom(a, b, 1)

\* floor(a / m) for a divisor m of one limb, from the most significant limb down
RECURSIVE DivFrom(_, _, _, _)
DivFrom(a, m, i, r) ==
    IF i = 0 THEN <<>>
    ELSE LET r2 == r * Base + a[i]
         IN  DivFrom(a, m, i - 1, r2 % m) \o <<r2 \div m>>
DivB(a, m) == Norm(DivFrom(a, m, Len(a), 0))

\* the bits of a number, counted from 0 at the least significant
BitLen(s) ==
    IF s = <<>> THEN 0
    ELSE LimbBits * (Len(s) - 1)
         + CHOOSE k \in 1..LimbBits : 2 ^ (k - 1) <= s[Len(s)] /\ s[Len(s)] < 2 ^ k
BitAt(s, i) == (Limb(s, (i \div LimbBits) + 1) \div (2 ^ (i % LimbBits))) % 2
Pow2(d) == Zeros(d \div LimbBits) \o <<2 ^ (d % LimbBits)>>

\* round to nearest, ties to even, at MantissaBits significant bits
RoundB(s) ==
    IF BitLen(s) <= MantissaBits THEN s
    ELSE LET d == BitLen(s) - MantissaBits
             whole == d \div LimbBits
             kept == [i \in DOMAIN s |->
                         IF i <= whole THEN 0
                         ELSE IF i = whole + 1 THEN s[i] - (s[i] % (2 ^ (d % LimbBits)))
                         ELSE s[i]]
             sticky == \E i \in 0..(d - 2) : BitAt(s, i) = 1
             up == BitAt(s, d - 1) = 1 /\ (sticky \/ BitAt(s, d) = 1)
         IN  IF up THEN AddB(kept, Pow2(d)) ELSE kept

Float(neg, mag) == [neg |-> neg /\ mag # <<>>, mag |-> mag]
\* json: a whole number n, and a number of halves h
FromInt(n) == Float(n < 0, ShiftLimbs(FromNat(IF n < 0 THEN -n ELSE n), FracLimbs))
FromHalves(h) == Float(FALSE, DivB(ShiftLimbs(FromNat(h), FracLimbs), 2))

\* x + y and x - y
FAdd(x, y) ==
    IF x.neg = y.neg THEN Float(x.neg, RoundB(AddB(x.mag, y.mag)))
    ELSE IF LessB(x.mag, y.mag) THEN Float(y.neg, RoundB(SubB(y.mag, x.mag)))
    ELSE Float(x.neg, RoundB(SubB(x.mag, y.mag)))
FSub(x, y) == FAdd(x, Float(~y.neg, y.mag))

\* x * y: the product counts units half as coarse again
FMul(x, y) ==
    LET r == RoundB(MulB(x.mag, y.mag))
    IN  Float(x.neg # y.neg,
              IF Len(r) <= FracLimbs THEN <<>> ELSE SubSeq(r, FracLimbs + 1, Len(r)))

\* n / m for whole numbers n >= 0 and 0 < m < Base, computed one limb finer;
\* the quotient's lowest bit keeps whether the division left a remainder
FDivInt(n, m) ==
    LET a == ShiftLimbs(FromNat(n), FracLimbs + 1)
        q == DivB(a, m)
        exact == MulLimb(q, m) = a
        r == RoundB(IF exact \/ q = <<>> THEN q
                    ELSE [q EXCEPT ![1] = IF @ % 2 = 0 THEN @ + 1 ELSE @])
    IN  Float(FALSE, IF Len(r) <= 1 THEN <<>> ELSE SubSeq(r, 2, Len(r)))

(* ------------------------ process_advantage_data ----------------------- *)
\* the part of a raw advantage that lines 92-103 read: whether the mandatory
\* fields are there, 'outcomes' and 'marketStatistics', each absent or a list,
\* of which the first element counts
Payouts == 2..MaxPayoutHalves
Percents == 0..MaxPercent
OutcomeLists ==
    {[present |-> FALSE, list |-> <<>>], [present |-> TRUE, list |-> <<>>]}
    \cup {[present |-> TRUE, list |-> <<[payout |-> x]>>] : x \in Payouts \cup {Null}}
StatisticsLists ==
    {[present |-> FALSE, list |-> <<>>], [present |-> TRUE, list |-> <<>>]}
    \cup {[present |-> TRUE, list |-> <<[value |-> v]>>] : v \in Percents \cup {Null}}
Advantages ==
    [mandatory : BOOLEAN, outcomes : OutcomeLists, marketStatistics : StatisticsLists]

\* outcomes = advantage.get('outcomes', [])
outcomes(adv) == IF adv.outcomes.present THEN adv.outcomes.list ELSE <<>>
\* outcome_payout = outcomes[0].get('payout') if outcomes else None
outcome_payout(adv) == IF outcomes(adv) # <<>> THEN outcomes(adv)[1].payout ELSE Null
\* advantage.get('marketStatistics', [{}]): the default is a list of one empty dict
marketStatistics(adv) ==
    IF adv.marketStatistics.present THEN adv.marketStatistics.list ELSE <<[value |-> Null]>>
\* ...[0].get('value')
implied_probability(adv) == marketStatistics(adv)[1].value

\* lines 97-103
Derived(adv) == implied_probability(adv) # Null /\ outcome_payout(adv) # Null
NoneValue == [none |-> TRUE, neg |-> FALSE, mag |-> <<>>]
Number(x) == [none |-> FALSE, neg |-> x.neg, mag |-> x.mag]
profit_potential(adv) ==
    FMul(FSub(FromHalves(outcome_payout(adv)), FromInt(1)), FromInt(100))
implied_probability_decimal(adv) == FDivInt(implied_probability(adv), 100)
EV(adv) ==
    FSub(FMul(implied_probability_decimal(adv), profit_potential(adv)),
         FMul(FSub(FromInt(1), implied_probability_decimal(adv)), FromInt(100)))

\* what a call returns, or the exception it raises: line 94 subscripts the
\* list of statistics before anything else can fail, lines 106-111 subscript
\* the mandatory fields
NoResult == [raised |-> "pending", profit_potential |-> NoneValue, EV |-> NoneValue]
NormalizedEdge(adv) ==
    IF marketStatistics(adv) = <<>>
    THEN [raised |-> "IndexError", profit_potential |-> NoneValue, EV |-> NoneValue]
    ELSE IF ~adv.mandatory
    THEN [raised |-> "KeyError", profit_potential |-> NoneValue, EV |-> NoneValue]
    ELSE IF Derived(adv)
    THEN [raised |-> "none", profit_potential |-> Number(profit_potential(adv)),
          EV |-> Number(EV(adv))]
    ELSE [raised |-> "none", profit_potential |-> NoneValue, EV |-> NoneValue]

\* no call of process_advantage_data is followed
NoCall ==
    [mandatory |-> FALSE, outcomes |-> [present |-> FALSE, list |-> <<>>],
     marketStatistics |-> [present |-> FALSE, list |-> <<>>]]

(* ------------------------- setup_mongodb_connection -------------------- *)
\* parse_mongodb_uri(): the outcome of one call
parse_mongodb_uri ==
    IF uri_binding = "local" THEN "UnboundLocalError"
    ELSE IF MONGODB_URI = "unset" THEN "ValueError"
    ELSE "ok"

\* setup_mongodb_connection(): the outcomes of one call; every exception is
\* printed and raised again
setup_mongodb_connection ==
    IF parse_mongodb_uri # "ok" THEN {parse_mongodb_uri}
    ELSE IF store_up THEN {"ok"}
    ELSE {"ConnectionFailure", "ServerSelectionTimeoutError"}

\* client = MongoClient(uri, ...): one more client object, if line 42 returned
MongoClient ==
    IF parse_mongodb_uri = "ok" /\ clients < MaxClients THEN clients + 1 ELSE clients

(* ------------------------------- worker -------------------------------- *)
\* Catch with a second clause that names the feed's and the store's own errors
\* instead of Exception
CatchNarrow(exc) ==
    IF exc \in ConnectionFailures THEN "except_conn"
    ELSE IF exc \in {"NetworkError", "HTTPStatusError", "DecodeError", "BulkWriteError"}
         THEN "except_generic"
    ELSE "dead"

\* the except clause of worker() that catches exc
Catch(exc) ==
    IF exc \in ConnectionFailures THEN "except_conn"
    ELSE IF exc \in Exceptions THEN "except_generic"
    ELSE "dead"

\* api_data, processed_bets and the operations of an attempt are not read
\* after it: the next attempt assigns them before it reads them
DropLocals(w) ==
    /\ api_data' = [api_data EXCEPT ![w] = NoData]
    /\ processed_bets' = [processed_bets EXCEPT ![w] = <<>>]
    /\ pending' = [pending EXCEPT ![w] = {}]
    /\ write_errors' = [write_errors EXCEPT ![w] = FALSE]

\* exc is raised inside the try block of worker()
Raise(w, exc) ==
    /\ wpc' = [wpc EXCEPT ![w] = Catch(exc)]
    /\ last_end' = [last_end EXCEPT ![w] = exc]
    /\ DropLocals(w)

\* while True: print("Starting job ...")
WorkerStart(w) ==
    /\ wpc[w] = "top"
    /\ wpc' = [wpc EXCEPT ![w] = "connect"]
    /\ rc_at_start' = [rc_at_start EXCEPT ![w] = retry_count[w]]
    /\ slept' = [slept EXCEPT ![w] = 0]
    /\ last_end' = [last_end EXCEPT ![w] = "none"]
    /\ UNCHANGED <<retry_count, api_data, processed_bets, pending, write_errors>>
    /\ UNCHANGED <<tvars, envvars, dbvars, httpvars>>

\* collection = setup_mongodb_connection()
WorkerConnect(w) ==
    /\ wpc[w] = "connect"
    /\ \E o \in setup_mongodb_connection :
          IF o = "ok"
          THEN /\ wpc' = [wpc EXCEPT ![w] = "fetch"]
               /\ UNCHANGED <<last_end, api_data, processed_bets, pending,
                              write_errors>>
          ELSE Raise(w, o)
    /\ clients' = MongoClient
    /\ UNCHANGED <<retry_count, slept, rc_at_start>>
    /\ UNCHANGED <<tvars, MONGODB_URI, uri_binding, store_up, now, dbvars, httpvars>>

\* HandleGeneric clearing the failure counter
HandleGenericReset(w) ==
    /\ wpc[w] = "except_generic"
    /\ slept' = [slept EXCEPT ![w] = @ + IntervalSeconds]
    /\ wpc' = [wpc EXCEPT ![w] = "interval"]
    /\ retry_count' = [retry_count EXCEPT ![w] = 0]
    /\ UNCHANGED <<api_data, processed_bets, pending, write_errors,
                   last_end, rc_at_start>>
    /\ UNCHANGED <<tvars, envvars, dbvars, httpvars>>

\* except Exception: print; time.sleep(60), falling through to line 190
HandleGeneric(w) ==
    /\ wpc[w] = "except_generic"
    /\ slept' = [slept EXCEPT ![w] = @ + IntervalSeconds]
    /\ wpc' = [wpc EXCEPT ![w] = "interval"]
    /\ UNCHANGED <<retry_count, api_data, processed_bets, pending, write_errors,
                   last_end, rc_at_start>>
    /\ UNCHANGED <<tvars, envvars, dbvars, httpvars>>

\* time.sleep(60) at the end of the loop body
RegularSleep(w) ==
    /\ wpc[w] = "interval"
    /\ slept' = [slept EXCEPT ![w] = @ + IntervalSeconds]
    /\ wpc' = [wpc EXCEPT ![w] = "top"]
    /\ UNCHANGED <<retry_count, api_data, processed_bets, pending, write_errors,
                   last_end, rc_at_start>>
    /\ UNCHANGED <<tvars, envvars, dbvars, httpvars>>

\* requests.get, raise_for_status, response.json(); RequestException is printed
\* and raised again
FetchErrors == {"NetworkError", "HTTPStatusError", "DecodeError"}

fetch_rapid_api_data ==
    {[raised |-> e, value |-> NoData] : e \in FetchErrors}
    \cup {[raised |-> "none", value |-> d] : d \in ApiData}

\* requests.get(url, headers=headers, params=querystring) is called without a
\* timeout: a feed that accepts the request and never answers blocks the call
FetchStall(w) ==
    /\ wpc[w] = "fetch"
    /\ wpc' = [wpc EXCEPT ![w] = "fetch_stalled"]
    /\ UNCHANGED <<retry_count, api_data, processed_bets, pending, write_errors,
                   slept, last_end, rc_at_start>>
    /\ UNCHANGED <<tvars, envvars, dbvars, httpvars>>

\* api_data = fetch_rapid_api_data() raises
FetchFails(w) ==
    /\ wpc[w] = "fetch"
    /\ \E o \in fetch_rapid_api_data :
          /\ o.raised # "none"
          /\ Raise(w, o.raised)
    /\ UNCHANGED <<retry_count, slept, rc_at_start>>
    /\ UNCHANGED <<tvars, envvars, dbvars, httpvars>>

\* the fetch returns a JSON value that is no object: api_data.get raises
BadApiData(w) ==
    /\ wpc[w] = "fetch"
    /\ \E o \in fetch_rapid_api_data :
          /\ o.raised = "none"
          /\ o.value.kind = "notdict"
          /\ Raise(w, "AttributeError")
    /\ UNCHANGED <<retry_count, slept, rc_at_start>>
    /\ UNCHANGED <<tvars, envvars, dbvars, httpvars>>

\* if not api_data.get('advantages'): print; time.sleep(60); continue
NoAdvantages(w) ==
    /\ wpc[w] = "fetch"
    /\ \E o \in fetch_rapid_api_data :
          /\ o.raised = "none"
          /\ o.value.kind # "notdict"
          /\ o.value.advantages = <<>>
    /\ slept' = [slept EXCEPT ![w] = @ + IntervalSeconds]
    /\ wpc' = [wpc EXCEPT ![w] = "top"]
    /\ last_end' = [last_end EXCEPT ![w] = "noadv"]
    /\ DropLocals(w)
    /\ UNCHANGED <<retry_count, rc_at_start>>
    /\ UNCHANGED <<tvars, envvars, dbvars, httpvars>>

\* the fetch returns advantages: the list comprehension of lines 166-169 starts
HasAdvantages(w) ==
    /\ wpc[w] = "fetch"
    /\ \E o \in fetch_rapid_api_data :
          /\ o.raised = "none"
          /\ o.value.kind # "notdict"
          /\ o.value.advantages # <<>>
          /\ api_data' = [api_data EXCEPT ![w] = o.value]
    /\ wpc' = [wpc EXCEPT ![w] = "transform"]
    /\ UNCHANGED <<retry_count, processed_bets, pending, write_errors, slept,
                   last_end, rc_at_start>>
    /\ UNCHANGED <<tvars, envvars, dbvars, httpvars>>

\* process_advantage_data(advantage), read at clock t: the subscripts of lines
\* 106-111 raise KeyError on a record without its mandatory fields
Mandatory(advantage) == advantage.key # "missing"

process_advantage_data(advantage, t) ==
    [key |-> advantage.key, ver |-> advantage.ver, updated_at |-> t]

\* the bets whose operations update_database hands to bulk_write
Operations(bets_data) == DOMAIN bets_data

\* datetime.utcnow(): the clock does not run backwards
utcnow == now..MaxTime

\* Transform handing every bet to the store as soon as it is built
TransformEager(w) ==
    /\ wpc[w] = "transform"
    /\ \E t \in utcnow :
          LET advantage == api_data[w].advantages[Len(processed_bets[w]) + 1]
              bets == Append(processed_bets[w], process_advantage_data(advantage, t))
          IN  IF ~Mandatory(advantage)
              THEN /\ Raise(w, "KeyError")
                   /\ UNCHANGED now
              ELSE /\ processed_bets' = [processed_bets EXCEPT ![w] = bets]
                   /\ now' = t
                   /\ wpc' = [wpc EXCEPT ![w] = "write"]
                   /\ pending' = [pending EXCEPT ![w] = {Len(bets)}]
                   /\ UNCHANGED <<last_end, api_data, write_errors>>
    /\ UNCHANGED <<retry_count, slept, rc_at_start>>
    /\ UNCHANGED <<tvars, MONGODB_URI, uri_binding, store_up, clients, dbvars, httpvars>>

\* Transform setting a malformed record aside and handing the bets built so far
\* to update_database
TransformIsolating(w) ==
    /\ wpc[w] = "transform"
    /\ \E t \in utcnow :
          LET advantage == api_data[w].advantages[Len(processed_bets[w]) + 1]
              bets == Append(processed_bets[w], process_advantage_data(advantage, t))
          IN  IF ~Mandatory(advantage)
              THEN /\ wpc' = [wpc EXCEPT ![w] = "write"]
                   /\ pending' = [pending EXCEPT ![w] = Operations(processed_bets[w])]
                   /\ UNCHANGED <<now, processed_bets, last_end, api_data, write_errors>>
              ELSE /\ processed_bets' = [processed_bets EXCEPT ![w] = bets]
                   /\ now' = t
                   /\ IF Len(bets) = Len(api_data[w].advantages)
                      THEN /\ wpc' = [wpc EXCEPT ![w] = "write"]
                           /\ pending' = [pending EXCEPT ![w] = Operations(bets)]
                      ELSE UNCHANGED <<wpc, pending>>
                   /\ UNCHANGED <<last_end, api_data, write_errors>>
    /\ UNCHANGED <<retry_count, slept, rc_at_start>>
    /\ UNCHANGED <<tvars, MONGODB_URI, uri_binding, store_up, clients, dbvars, httpvars>>

\* one more element of the list comprehension; after the last one,
\* update_database builds its operations
Transform(w) ==
    /\ wpc[w] = "transform"
    /\ \E t \in utcnow :
          LET advantage == api_data[w].advantages[Len(processed_bets[w]) + 1]
              bets == Append(processed_bets[w], process_advantage_data(advantage, t))
          IN  IF ~Mandatory(advantage)
              THEN /\ Raise(w, "KeyError")
                   /\ UNCHANGED now
              ELSE /\ processed_bets' = [processed_bets EXCEPT ![w] = bets]
                   /\ now' = t
                   /\ IF Len(bets) = Len(api_data[w].advantages)
                      THEN /\ wpc' = [wpc EXCEPT ![w] = "write"]
                           /\ pending' = [pending EXCEPT ![w] = Operations(bets)]
                      ELSE UNCHANGED <<wpc, pending>>
                   /\ UNCHANGED <<last_end, api_data, write_errors>>
    /\ UNCHANGED <<retry_count, slept, rc_at_start>>
    /\ UNCHANGED <<tvars, MONGODB_URI, uri_binding, store_up, clients, dbvars, httpvars>>

\* ReplaceOne as an insert that never looks for the key
InsertOne(st, bet) == Append(st, bet)

\* ReplaceOne as an update that sets the feed's fields and keeps the rest of
\* the stored document
MergeOne(st, bet) ==
    IF \E i \in DOMAIN st : st[i].key = bet.key
    THEN LET i == CHOOSE i \in DOMAIN st : st[i].key = bet.key
         IN  [st EXCEPT ![i].ver = bet.ver]
    ELSE Append(st, bet)

\* replaceOne with filter {'key': bet['key']}, replacement bet, upsert True
ReplaceOne(st, bet) ==
    IF \E i \in DOMAIN st : st[i].key = bet.key
    THEN LET i == CHOOSE i \in DOMAIN st :
                      /\ st[i].key = bet.key
                      /\ \A j \in DOMAIN st : st[j].key = bet.key => i <= j
         IN  [st EXCEPT ![i] = bet]
    ELSE Append(st, bet)

\* bulk_write(operations, ordered=False): the server executes one operation
WriteApply(w) ==
    /\ wpc[w] = "write"
    /\ store_up
    /\ \E i \in pending[w] :
          LET bet == processed_bets[w][i]
          IN  /\ store' = ReplaceOne(store, bet)
              /\ lastWrite' = [lastWrite EXCEPT ![bet.key] = <<bet>>]
              /\ pending' = [pending EXCEPT ![w] = @ \ {i}]
    /\ UNCHANGED <<wpc, retry_count, api_data, processed_bets, write_errors, slept,
                   last_end, rc_at_start>>
    /\ UNCHANGED <<tvars, envvars, httpvars>>

\* the server rejects one operation and, the batch being unordered, goes on
WriteReject(w) ==
    /\ wpc[w] = "write"
    /\ store_up
    /\ \E i \in pending[w] : pending' = [pending EXCEPT ![w] = @ \ {i}]
    /\ write_errors' = [write_errors EXCEPT ![w] = TRUE]
    /\ UNCHANGED <<wpc, retry_count, api_data, processed_bets, slept, last_end,
                   rc_at_start>>
    /\ UNCHANGED <<tvars, envvars, dbvars, httpvars>>

\* the deployment is lost before the batch is through
WriteDisconnected(w) ==
    /\ wpc[w] = "write"
    /\ ~store_up
    /\ pending[w] # {}
    /\ Raise(w, "AutoReconnect")
    /\ UNCHANGED <<retry_count, slept, rc_at_start>>
    /\ UNCHANGED <<tvars, envvars, dbvars, httpvars>>

\* the client is built with socketTimeoutMS=None: a deployment that holds the
\* connection and never answers blocks bulk_write
WriteStall(w) ==
    /\ wpc[w] = "write"
    /\ store_up
    /\ pending[w] # {}
    /\ wpc' = [wpc EXCEPT ![w] = "write_stalled"]
    /\ DropLocals(w)
    /\ UNCHANGED <<retry_count, slept, last_end, rc_at_start>>
    /\ UNCHANGED <<tvars, envvars, dbvars, httpvars>>

\* bulk_write returns or raises BulkWriteError; on return lines 172-173
WriteDone(w) ==
    /\ wpc[w] = "write"
    /\ pending[w] = {}
    /\ IF write_errors[w]
       THEN /\ Raise(w, "BulkWriteError")
            /\ UNCHANGED retry_count
       ELSE /\ retry_count' = [retry_count EXCEPT ![w] = 0]
            /\ wpc' = [wpc EXCEPT ![w] = "interval"]
            /\ last_end' = [last_end EXCEPT ![w] = "ok"]
            /\ DropLocals(w)
    /\ UNCHANGED <<slept, rc_at_start>>
    /\ UNCHANGED <<tvars, envvars, dbvars, httpvars>>

\* HandleConnError without its continue: the loop body's last sleep follows
HandleConnErrorNoContinue(w) ==
    /\ wpc[w] = "except_conn"
    /\ IF retry_count[w] + 1 >= max_retries
       THEN /\ retry_count' = [retry_count EXCEPT ![w] = 0]
            /\ slept' = [slept EXCEPT ![w] = @ + IntervalSeconds]
       ELSE /\ retry_count' = [retry_count EXCEPT ![w] = @ + 1]
            /\ slept' = [slept EXCEPT ![w] = @ + BackoffSeconds]
    /\ wpc' = [wpc EXCEPT ![w] = "interval"]
    /\ UNCHANGED <<api_data, processed_bets, pending, write_errors, last_end,
                   rc_at_start>>
    /\ UNCHANGED <<tvars, envvars, dbvars, httpvars>>

\* HandleConnError that waits the interval at the limit and keeps counting
HandleConnErrorNoReset(w) ==
    /\ wpc[w] = "except_conn"
    /\ retry_count' = [retry_count EXCEPT ![w] = @ + 1]
    /\ IF retry_count[w] + 1 >= max_retries
       THEN slept' = [slept EXCEPT ![w] = @ + IntervalSeconds]
       ELSE slept' = [slept EXCEPT ![w] = @ + BackoffSeconds]
    /\ wpc' = [wpc EXCEPT ![w] = "top"]
    /\ UNCHANGED <<api_data, processed_bets, pending, write_errors, last_end,
                   rc_at_start>>
    /\ UNCHANGED <<tvars, envvars, dbvars, httpvars>>

\* except (ConnectionFailure, ServerSelectionTimeoutError): lines 176-184
HandleConnError(w) ==
    /\ wpc[w] = "except_conn"
    /\ IF retry_count[w] + 1 >= max_retries
       THEN /\ retry_count' = [retry_count EXCEPT ![w] = 0]
            /\ slept' = [slept EXCEPT ![w] = @ + IntervalSeconds]
       ELSE /\ retry_count' = [retry_count EXCEPT ![w] = @ + 1]
            /\ slept' = [slept EXCEPT ![w] = @ + BackoffSeconds]
    /\ wpc' = [wpc EXCEPT ![w] = "top"]
    /\ UNCHANGED <<api_data, processed_bets, pending, write_errors, last_end,
                   rc_at_start>>
    /\ UNCHANGED <<tvars, envvars, dbvars, httpvars>>

(* ------------------------------ Flask ---------------------------------- *)
\* a response of /status; store_was_up and store_max record the deployment as
\* the request met it: reachable or not, and the greatest updated_at it held
NoResponse ==
    [code |-> 0, status |-> "none", database_connected |-> FALSE,
     last_update |-> Null, store_was_up |-> FALSE, store_max |-> Null]

MaxUpdatedAt(st) ==
    IF st = <<>> THEN Null
    ELSE CHOOSE t \in {st[i].updated_at : i \in DOMAIN st} :
             \A i \in DOMAIN st : st[i].updated_at <= t

\* StatusError without the except branch: Flask answers the unhandled exception
StatusErrorUnhandled(up) ==
    [code |-> 500, status |-> "unhandled", database_connected |-> FALSE,
     last_update |-> Null, store_was_up |-> up, store_max |-> MaxUpdatedAt(store)]

\* the except branch of worker_status()
StatusError(up) ==
    [code |-> 500, status |-> "error", database_connected |-> FALSE,
     last_update |-> Null, store_was_up |-> up, store_max |-> MaxUpdatedAt(store)]

\* health_check(); the response records what went on as it was served
NoHealth == [code |-> 0, status |-> "none", during_outage |-> FALSE]

health_check ==
    [code |-> 200, status |-> "healthy", during_outage |-> (spc # "idle" /\ ~store_up)]

HealthCheck ==
    /\ healthResp' = health_check
    /\ UNCHANGED <<spc, statusResp>>
    /\ UNCHANGED <<tvars, envvars, dbvars, wvars>>

\* a GET /status arrives
StatusBegin ==
    /\ spc = "idle"
    /\ spc' = "setup"
    /\ statusResp' = NoResponse
    /\ healthResp' = NoHealth
    /\ UNCHANGED <<tvars, envvars, dbvars, wvars>>

\* worker_status(): collection = setup_mongodb_connection()
StatusSetup ==
    /\ spc = "setup"
    /\ \E o \in setup_mongodb_connection :
          IF o = "ok"
          THEN /\ spc' = "query"
               /\ UNCHANGED statusResp
          ELSE /\ spc' = "idle"
               /\ statusResp' = StatusError(store_up)
    /\ clients' = MongoClient
    /\ UNCHANGED healthResp
    /\ UNCHANGED <<tvars, MONGODB_URI, uri_binding, store_up, now, dbvars, wvars>>

\* collection.find_one({}, {'updated_at': 1}, sort=[('updated_at', -1)])
find_one(st) ==
    IF st = <<>> THEN Null
    ELSE LET first == CHOOSE i \in DOMAIN st :
                          \A j \in DOMAIN st : st[j].updated_at <= st[i].updated_at
         IN  st[first].updated_at

\* StatusHealthy answering from the worker's batch in memory when there is one
StatusHealthyShared(st) ==
    LET inMemory == UNION {{processed_bets[w][i].updated_at :
                               i \in DOMAIN processed_bets[w]} : w \in WorkerThreads}
        newest == IF inMemory = {} THEN find_one(st)
                  ELSE CHOOSE t \in inMemory : \A u \in inMemory : u <= t
    IN  [code |-> 200, status |-> "healthy", database_connected |-> TRUE,
         last_update |-> newest, store_was_up |-> TRUE, store_max |-> MaxUpdatedAt(st)]

\* the try branch of worker_status()
StatusHealthy(st) ==
    [code |-> 200, status |-> "healthy", database_connected |-> TRUE,
     last_update |-> find_one(st), store_was_up |-> TRUE, store_max |-> MaxUpdatedAt(st)]

\* worker_status(): the query and the response
StatusQuery ==
    /\ spc = "query"
    /\ spc' = "idle"
    /\ statusResp' = IF store_up THEN StatusHealthy(store) ELSE StatusError(FALSE)
    /\ UNCHANGED healthResp
    /\ UNCHANGED <<tvars, envvars, dbvars, wvars>>

(* ---------------------------- environment ------------------------------ *)
\* the deployment becomes unreachable, or reachable again
StoreFlip ==
    /\ store_up' = ~store_up
    /\ UNCHANGED <<tvars, MONGODB_URI, uri_binding, now, clients>>
    /\ UNCHANGED <<dbvars, wvars, httpvars>>

(* --------------------------- specifications ---------------------------- *)
InitCommon ==
    /\ MONGODB_URI \in {"unset", "set"}
    /\ store_up \in BOOLEAN
    /\ now = 0
    /\ clients = 0
    /\ store = <<>>
    /\ lastWrite = [k \in Keys |-> <<>>]
    /\ wpc = [w \in WorkerThreads |-> "top"]
    /\ retry_count = [w \in WorkerThreads |-> 0]
    /\ api_data = [w \in WorkerThreads |-> NoData]
    /\ processed_bets = [w \in WorkerThreads |-> <<>>]
    /\ pending = [w \in WorkerThreads |-> {}]
    /\ write_errors = [w \in WorkerThreads |-> FALSE]
    /\ slept = [w \in WorkerThreads |-> 0]
    /\ last_end = [w \in WorkerThreads |-> "none"]
    /\ rc_at_start = [w \in WorkerThreads |-> 0]
    /\ spc = "idle"
    /\ statusResp = NoResponse
    /\ healthResp = NoHealth
    /\ argument = NoCall
    /\ result = NoResult

Init ==
    /\ uri_binding = "local"
    /\ InitCommon

Next ==
    \/ \E w \in WorkerThreads : WorkerStart(w)
    \/ \E w \in WorkerThreads : WorkerConnect(w)
    \/ \E w \in WorkerThreads : HandleGeneric(w)
    \/ \E w \in WorkerThreads : RegularSleep(w)
    \/ HealthCheck
    \/ StatusBegin
    \/ StatusSetup
    \/ StoreFlip

Spec == Init /\ [][Next]_vars

InitLoop ==
    /\ uri_binding \in {"local", "global"}
    /\ InitCommon

NextLoop ==
    \/ \E w \in WorkerThreads : WorkerStart(w)
    \/ \E w \in WorkerThreads : WorkerConnect(w)
    \/ \E w \in WorkerThreads : HandleGeneric(w)
    \/ \E w \in WorkerThreads : RegularSleep(w)
    \/ StoreFlip
    \/ \E w \in WorkerThreads : FetchFails(w)
    \/ \E w \in WorkerThreads : BadApiData(w)
    \/ \E w \in WorkerThreads : NoAdvantages(w)
    \/ \E w \in WorkerThreads : HasAdvantages(w)
    \/ \E w \in WorkerThreads : Transform(w)
    \/ \E w \in WorkerThreads : WriteApply(w)
    \/ \E w \in WorkerThreads : WriteReject(w)
    \/ \E w \in WorkerThreads : WriteDisconnected(w)
    \/ \E w \in WorkerThreads : WriteDone(w)
    \/ \E w \in WorkerThreads : HandleConnError(w)
    \/ \E w \in WorkerThreads : FetchStall(w)
    \/ \E w \in WorkerThreads : WriteStall(w)

SpecLoop == InitLoop /\ [][NextLoop]_vars

\* the worker thread and the Flask handlers together
NextAll ==
    \/ NextLoop
    \/ HealthCheck
    \/ StatusBegin
    \/ StatusSetup
    \/ StatusQuery

SpecAll == InitLoop /\ [][NextAll]_vars

\* time.sleep returns and the thread goes on: the handlers, the sleeps and the
\* head of the loop are taken once they are reached
SpecLoopFair ==
    /\ SpecLoop
    /\ \A w \in WorkerThreads :
          /\ WF_vars(HandleGeneric(w))
          /\ WF_vars(HandleConnError(w))
          /\ WF_vars(RegularSleep(w))
          /\ WF_vars(WorkerStart(w))

\* process_advantage_data called on one raw advantage
CallTransformer ==
    /\ argument \in Advantages
    /\ result = NoResult
    /\ result' = NormalizedEdge(argument)
    /\ UNCHANGED <<argument, envvars, dbvars, wvars, httpvars>>

InitTransform ==
    /\ argument \in Advantages
    /\ result = NoResult
    /\ MONGODB_URI = "set"
    /\ uri_binding = "local"
    /\ store_up = TRUE
    /\ now = 0
    /\ clients = 0
    /\ store = <<>>
    /\ lastWrite = [k \in Keys |-> <<>>]
    /\ wpc = [w \in WorkerThreads |-> "top"]
    /\ retry_count = [w \in WorkerThreads |-> 0]
    /\ api_data = [w \in WorkerThreads |-> NoData]
    /\ processed_bets = [w \in WorkerThreads |-> <<>>]
    /\ pending = [w \in WorkerThreads |-> {}]
    /\ write_errors = [w \in WorkerThreads |-> FALSE]
    /\ slept = [w \in WorkerThreads |-> 0]
    /\ last_end = [w \in WorkerThreads |-> "none"]
    /\ rc_at_start = [w \in WorkerThreads |-> 0]
    /\ spc = "idle"
    /\ statusResp = NoResponse
    /\ healthResp = NoHealth

NextTransform == CallTransformer

\* the transformer alone, on every raw advantage within the bounds
SpecTransform == InitTransform /\ [][NextTransform]_vars


(* ------------------------------- claims -------------------------------- *)
\* an attempt of w has failed and its handler has not run yet
Failed(w) == wpc[w] \in {"except_conn", "except_generic"}

\* the last attempt of w ended in the first except clause of worker()
ConnFailed(w) == last_end[w] \in Exceptions /\ Catch(last_end[w]) = "except_conn"

\* C1: a NetworkError raised by the fetch is handled as the retry policy says:
\* the counter goes up by one and the worker retries after the 30s backoff
\* alone, or, the limit of 3 reached, the counter is back at zero and the worker
\* has waited the full 60s interval alone.
C1_NetworkErrorsRetried ==
    \A w \in WorkerThreads :
        (wpc[w] = "top" /\ last_end[w] = "NetworkError") =>
            \/ /\ rc_at_start[w] + 1 < max_retries
               /\ retry_count[w] = rc_at_start[w] + 1
               /\ slept[w] = BackoffSeconds
            \/ /\ rc_at_start[w] + 1 >= max_retries
               /\ retry_count[w] = 0
               /\ slept[w] = IntervalSeconds

\* C2: when the loop is back at its head after a store-connection failure, the
\* counter is one more than before and the wait was the 30s backoff alone, or,
\* the limit of 3 reached, the counter is zero and the wait was the 60s interval
\* alone; the handler never runs into the loop body's last sleep.
C2_ConnectionFailureBackoff ==
    \A w \in WorkerThreads :
        /\ (wpc[w] = "top" /\ ConnFailed(w)) =>
              IF rc_at_start[w] + 1 < max_retries
              THEN retry_count[w] = rc_at_start[w] + 1 /\ slept[w] = BackoffSeconds
              ELSE retry_count[w] = 0 /\ slept[w] = IntervalSeconds
        /\ wpc[w] = "interval" => ~ConnFailed(w)

\* C2 witness: the third failure in a row: counter reset, 60s waited
C2_Witness ==
    \E w \in WorkerThreads :
        /\ wpc[w] = "top" /\ ConnFailed(w)
        /\ rc_at_start[w] = max_retries - 1
        /\ retry_count[w] = 0 /\ slept[w] = IntervalSeconds

\* C3: when the loop is back at its head after an attempt that raised nothing
\* (the batch persisted, or no advantages to persist), the counter is zero.
C3_CounterZeroAfterSuccess ==
    \A w \in WorkerThreads :
        (wpc[w] = "top" /\ last_end[w] \in {"ok", "noadv"}) => retry_count[w] = 0

\* C4: no exception ends the worker loop, and after every failed attempt the
\* loop starts another one.
C4_NoErrorEscapes ==
    /\ [](\A w \in WorkerThreads : wpc[w] # "dead")
    /\ \A w \in WorkerThreads : Failed(w) ~> (wpc[w] = "connect")

\* C4 witness: the loop is back at its head after a failure, the store holding
\* what the batch wrote before it failed
C4_Witness ==
    \E w \in WorkerThreads :
        /\ wpc[w] = "top"
        /\ last_end[w] \in Exceptions
        /\ store # <<>>

\* C5: with the connection string unset the worker loop never starts a second
\* attempt.
C5_MissingUriIsFatal ==
    [][\A w \in WorkerThreads :
          MONGODB_URI = "unset" =>
              ~(wpc[w] = "top" /\ last_end[w] # "none" /\ wpc'[w] = "connect")]_vars

\* C6: the store holds at most one document per key, and the document of a key
\* that was written carries the updated_at of the latest write of that key.
C6_OneDocumentPerKey ==
    \A k \in Keys :
        LET docs == {i \in DOMAIN store : store[i].key = k}
        IN  /\ Cardinality(docs) <= 1
            /\ lastWrite[k] # <<>> =>
                  \E i \in docs : store[i].updated_at = lastWrite[k][1].updated_at

\* C6 witness: two bets of one key, built at different times, have both been
\* written, and the store holds one document of that key
C6_Witness ==
    \E w \in WorkerThreads :
        /\ wpc[w] = "write" /\ ~write_errors[w] /\ pending[w] = {}
        /\ \E i, j \in DOMAIN processed_bets[w] :
              /\ i # j
              /\ processed_bets[w][i].key = processed_bets[w][j].key
              /\ processed_bets[w][i].updated_at # processed_bets[w][j].updated_at
              /\ Cardinality({d \in DOMAIN store :
                                 store[d].key = processed_bets[w][i].key}) = 1

\* C7: every document of the store equals, field by field, the bet that the
\* latest replaceOne of its key carried: one output of process_advantage_data.
C7_WholeDocumentReplaced ==
    \A i \in DOMAIN store : lastWrite[store[i].key] = <<store[i]>>

\* C7 witness: a batch that has lost an operation has replaced the document an
\* earlier cycle wrote for a key, beside a document no bet of this batch wrote
C7_Witness ==
    \E w \in WorkerThreads :
        /\ wpc[w] = "write" /\ write_errors[w]
        /\ \E i \in DOMAIN processed_bets[w] \ pending[w] :
              \E d \in DOMAIN store : store[d] = processed_bets[w][i]
        /\ \E d \in DOMAIN store :
              \A i \in DOMAIN processed_bets[w] : store[d] # processed_bets[w][i]

\* C8: a /status request that found the store unreachable is answered 500 with
\* status error and database_connected false, and every / request, whatever
\* the others are doing, is answered 200 with status healthy.
C8_StatusErrorHealthAlive ==
    /\ (statusResp.code # 0 /\ ~statusResp.store_was_up) =>
          /\ statusResp.code = 500
          /\ statusResp.status = "error"
          /\ ~statusResp.database_connected
    /\ healthResp.code # 0 => (healthResp.code = 200 /\ healthResp.status = "healthy")
    /\ ENABLED HealthCheck

\* C8 witness: / was served while a /status request was open and the store
\* unreachable, that request was answered 500, and the worker is in a cycle
C8_Witness ==
    /\ statusResp.code = 500 /\ ~statusResp.store_was_up
    /\ healthResp.code = 200 /\ healthResp.during_outage
    /\ \E w \in WorkerThreads : wpc[w] = "connect"

\* C9: a /status request that found the store reachable is answered 200 with
\* database_connected true and last_update the greatest updated_at of the
\* store, null for an empty store.
C9_StatusReportsLatest ==
    (statusResp.code # 0 /\ statusResp.store_was_up) =>
        /\ statusResp.code = 200
        /\ statusResp.database_connected
        /\ statusResp.last_update = statusResp.store_max

\* a cycle of w is in progress
InCycle(w) ==
    wpc[w] \in {"connect", "fetch", "fetch_stalled", "transform", "write", "write_stalled"}

\* C10: at most one cycle is in progress; a bet is built only from a fetched
\* response, the store is written only when every advantage of the response
\* has been transformed, and a cycle starts only from the head of the loop.
C10_SequentialCycle ==
    /\ [](Cardinality({w \in WorkerThreads : InCycle(w)}) <= 1)
    /\ [][\A w \in WorkerThreads :
            /\ (processed_bets'[w] # processed_bets[w] /\ processed_bets'[w] # <<>>) =>
                  /\ wpc[w] = "transform"
                  /\ api_data[w].kind = "dict"
            /\ (wpc[w] = "write" /\ pending'[w] # pending[w]) =>
                  Len(processed_bets[w]) = Len(api_data[w].advantages)
            /\ (~InCycle(w) /\ InCycle(w)') => (wpc[w] = "top" /\ wpc'[w] = "connect")]_vars
    /\ [][store' # store =>
            \E w \in WorkerThreads :
                /\ wpc[w] = "write"
                /\ Len(processed_bets[w]) = Len(api_data[w].advantages)]_vars

\* C10 witness: the first write of a batch of two has been executed
C10_Witness ==
    \E w \in WorkerThreads :
        /\ wpc[w] = "write"
        /\ Len(processed_bets[w]) = 2
        /\ Cardinality(pending[w]) = 1
        /\ store # <<>>

\* a call of process_advantage_data on a record with its mandatory fields has
\* ended
Called == argument \in Advantages /\ argument.mandatory /\ result.raised # "pending"

\* the first outcome's payout and the first statistics entry's value, Null if
\* there is none
PayoutOf(adv) ==
    IF adv.outcomes.present /\ adv.outcomes.list # <<>>
    THEN adv.outcomes.list[1].payout ELSE Null
ProbabilityOf(adv) ==
    IF adv.marketStatistics.present /\ adv.marketStatistics.list # <<>>
    THEN adv.marketStatistics.list[1].value ELSE Null

\* C11: on a record with its mandatory fields the transformer raises nothing,
\* and profit_potential and EV are null exactly when the payout or the implied
\* probability is unavailable: in particular when 'outcomes' or
\* 'marketStatistics' is missing or empty.
C11_MissingDataGivesNulls ==
    Called =>
        /\ result.raised = "none"
        /\ result.profit_potential.none
              <=> (PayoutOf(argument) = Null \/ ProbabilityOf(argument) = Null)
        /\ result.EV.none
              <=> (PayoutOf(argument) = Null \/ ProbabilityOf(argument) = Null)

\* the float x is exactly the fraction num / den
IsExactly(x, num, den) ==
    /\ ~x.none
    /\ x.neg = (num < 0)
    /\ MulLimb(x.mag, den) = ShiftLimbs(FromNat(IF num < 0 THEN -num ELSE num), FracLimbs)

\* C12: with a payout of h halves and an implied probability of v percent,
\* profit_potential is (h/2 - 1) * 100 and EV is p * profit_potential -
\* (1 - p) * 100 with p = v / 100, as numbers: 150 and 12.5 for 2.5 and 45.
C12_ExactExpectedValue ==
    (Called /\ result.raised = "none"
            /\ PayoutOf(argument) # Null /\ ProbabilityOf(argument) # Null) =>
        LET h == PayoutOf(argument)
            v == ProbabilityOf(argument)
            profit == 50 * h - 100
        IN  /\ IsExactly(result.profit_potential, profit, 1)
            /\ IsExactly(result.EV, v * profit - 100 * (100 - v), 100)

\* the batch w has fetched holds a record without its mandatory fields
BadBatch(w) ==
    /\ api_data[w].kind = "dict"
    /\ \E i \in DOMAIN api_data[w].advantages : ~Mandatory(api_data[w].advantages[i])

\* C13: the transformer leaves a record without its mandatory fields by
\* raising into the generic handler, and as long as a cycle holds a batch with
\* such a record the store is not written.
C13_BadRecordAbortsCycle ==
    [][\A w \in WorkerThreads :
          /\ BadBatch(w) => store' = store
          /\ ( /\ wpc[w] = "transform"
               /\ wpc'[w] # "transform"
               /\ ~Mandatory(api_data[w].advantages[Len(processed_bets[w]) + 1]) )
             => (wpc'[w] = "except_generic" /\ last_end'[w] = "KeyError")]_vars

\* C13 witness: a cycle has been aborted by a malformed record while the store
\* holds what an earlier cycle wrote
C13_Witness ==
    \E w \in WorkerThreads :
        /\ wpc[w] = "except_generic"
        /\ last_end[w] = "KeyError"
        /\ store # <<>>

\* the exceptions of the feed, the transformer and the bulk write that reach
\* the second except clause of worker()
CycleErrors ==
    {"NetworkError", "HTTPStatusError", "DecodeError", "AttributeError", "KeyError",
     "BulkWriteError"}

\* C14: when the loop is back at its head after a failure that was not
\* retried, the worker has waited the interval once: 60s.
C14_FailedCycleWaitsOnce ==
    \A w \in WorkerThreads :
        (wpc[w] = "top" /\ last_end[w] \in CycleErrors) => slept[w] = IntervalSeconds

\* C18: the failure counter stays within 0..2: no attempt starts with it at 3.
C18_CounterBelowLimit ==
    \A w \in WorkerThreads :
        /\ retry_count[w] \in 0..(max_retries - 1)
        /\ rc_at_start[w] \in 0..(max_retries - 1)

\* C18 witness: an attempt starts after two connection failures
C18_Witness ==
    \E w \in WorkerThreads :
        /\ wpc[w] = "connect"
        /\ rc_at_start[w] = max_retries - 1
        /\ retry_count[w] = max_retries - 1

\* C19: a cycle that ended in the generic handler or in the no-advantages
\* branch is back at the head of the loop with the counter it started with, and
\* the counter changes only in the connection-failure handler and when a bulk
\* write has returned.
C19_CounterCarriedOver ==
    /\ [](\A w \in WorkerThreads :
             (wpc[w] = "top" /\ last_end[w] \in CycleErrors \cup {"noadv"})
                 => retry_count[w] = rc_at_start[w])
    /\ [][\A w \in WorkerThreads :
             retry_count'[w] # retry_count[w] =>
                 \/ wpc[w] = "except_conn"
                 \/ wpc[w] = "write" /\ pending[w] = {} /\ ~write_errors[w]]_vars

\* C19 witness: two connection failures are still counted after a cycle that
\* failed otherwise or found no advantages: one more reaches the limit
C19_Witness ==
    \E w \in WorkerThreads :
        /\ wpc[w] = "top"
        /\ last_end[w] \in CycleErrors \cup {"noadv"}
        /\ retry_count[w] = max_retries - 1

Stalled(w) == wpc[w] \in {"fetch_stalled", "write_stalled"}

\* C15: a worker whose fetch or bulk write got no answer eventually leaves the
\* call and starts another attempt.
C15_StallEndsByTimeout ==
    \A w \in WorkerThreads : Stalled(w) ~> (wpc[w] = "connect")

StatusOf(st, up) ==
    IF uri_binding = "global" /\ MONGODB_URI = "set" /\ up
    THEN [code |-> 200, status |-> "healthy", database_connected |-> TRUE,
          last_update |-> MaxUpdatedAt(st), store_was_up |-> TRUE,
          store_max |-> MaxUpdatedAt(st)]
    ELSE [code |-> 500, status |-> "error", database_connected |-> FALSE,
          last_update |-> Null, store_was_up |-> up, store_max |-> MaxUpdatedAt(st)]

\* C16: a step of the / or /status handler leaves the store and the whole
\* state of the worker as they are, and the response of /status is the one the
\* store's contents and reachability determine, whatever the worker holds.
C16_StatusReadOnly ==
    [][(spc' # spc \/ statusResp' # statusResp \/ healthResp' # healthResp) =>
          /\ UNCHANGED <<store, lastWrite, wvars>>
          /\ (statusResp' # statusResp /\ statusResp'.code # 0) =>
                statusResp' = StatusOf(store, store_up)]_vars

\* C16 witness: /status has answered 200 while the worker was in the middle of
\* a bulk write with a failure counted
C16_Witness ==
    /\ statusResp.code = 200
    /\ healthResp.code = 200
    /\ \E w \in WorkerThreads :
          /\ wpc[w] = "write"
          /\ pending[w] # {}
          /\ retry_count[w] > 0

====
